---- MODULE Spec2Model ----
(***************************************************************************)
(* State-machine model of the interaction logic of the ganada web site:    *)
(* the category filter/sort and the cart store of Menu.tsx, the carousel   *)
(* index arithmetic of Home.tsx, the auto-hiding header of App.tsx, the    *)
(* floating-panel overlay flags of Menu.tsx, the body scroll locks of the  *)
(* Lightbox and of the mobile navigation, the cart totals, the autoplay   *)
(* timer of the carousel revision with video slides, and the animation     *)
(* frames, closing transitions and fly-to-cart timeouts of Menu.tsx.       *)
(*                                                                         *)
(* JavaScript numbers that can be fractional (cart quantities, stored JSON *)
(* numbers) are kept in HALF units: the integer h stands for h/2, so 2 is  *)
(* the quantity 1 and 1 is the quantity 0.5.                               *)
(***************************************************************************)
EXTENDS Integers, Sequences, FiniteSets, TLC

VARIABLES
    \* ---- Menu.tsx ----
    items,            \* menuData.items of the running build (a sequence of Item)
    active,           \* selected category
    mounted,          \* the Menu component is mounted
    cart,             \* cart state, id -> quantity (half units)
    stored,           \* localStorage["ganada_cart_v1"]
    writesOk,         \* history: no localStorage setItem/removeItem has thrown so far
    fabOpen,          \* floating category panel open
    cartOpen,         \* cart panel open
    panelMounted,     \* category panel still in the DOM
    cartMounted,      \* cart panel still in the DOM
    lightboxItem,     \* id of the item shown in the lightbox, or Null
    cartPageOpen,     \* full cart page open
    pendingScrollTop, \* a category pick asked for a scroll to top
    topScroll,        \* history: what the last handler run did with the scroll to top
    panelClosing,     \* the closing transition of the category panel is running
    cartClosing,      \* the closing transition of the cart panel is running
    menuTicking,      \* `ticking` of the registered onScroll of the floating-visibility effect
    menuRafStale,     \* queued `update` callbacks of earlier runs of that effect
    flyTimers,        \* pending cleanup timeouts of flyToCart
    \* ---- history of the counted cart calls ----
    nInc,             \* add/inc calls on TrackedId
    nDec,             \* dec calls on TrackedId
    nDecNoop,         \* dec calls on TrackedId made while it had no entry
    lastCall,         \* the Menu handler whose run produced this state
    \* ---- Home.tsx: BannerCarousel ----
    slides,           \* slides.length
    idx,              \* active index
    touchStartX,      \* touchStartX.current: << >> for null, <<x>> for a coordinate
    touchDeltaX,      \* touchDeltaX.current
    lastNav,          \* history: the last navigation call and its argument
    \* ---- App.tsx: useAutoHideHeader ----
    isQr,             \* useIsQrMenuMode()
    mobileNavOpen,    \* App: mobile navigation open
    listening,        \* the scroll listener is attached
    hidden,           \* the hook's state
    hiddenRef,        \* hiddenRef.current
    lastYRef,         \* lastYRef.current
    tickingRef,       \* tickingRef.current
    rafQueued,        \* number of queued animation-frame callbacks of onScroll
    scrollY,          \* window.scrollY
    \* ---- document.body.style.overflow and the scroll locks ----
    bodyOverflow,     \* document.body.style.overflow
    lightboxPrev,     \* `prev` captured by the Lightbox scroll-lock effect
    navPrev,          \* `prev` captured by the App mobile-navigation effect
    \* ---- Home.tsx, revision with video slides: BannerCarousel ----
    slideTypes,       \* slides[i].type, "image" or "video"
    timerArmed,       \* the autoplay setTimeout is pending
    timerStale,       \* history: prev()/next() ran since the pending timeout was set
    prefersReducedMotion  \* the viewer's (prefers-reduced-motion: reduce) setting

catalogVars == <<items, active>>
cartVars == <<mounted, cart, stored, writesOk>>
overlayVars ==
    <<fabOpen, cartOpen, panelMounted, cartMounted, lightboxItem, cartPageOpen,
      pendingScrollTop, topScroll, panelClosing, cartClosing, menuTicking, menuRafStale>>
flyVars == <<flyTimers>>
histVars == <<nInc, nDec, nDecNoop>>
callVars == <<lastCall>>
carouselVars == <<slides, idx, touchStartX, touchDeltaX, lastNav>>
headerVars ==
    <<isQr, mobileNavOpen, listening, hidden, hiddenRef, lastYRef, tickingRef,
      rafQueued, scrollY>>
lockVars == <<bodyOverflow, lightboxPrev, navPrev>>
videoVars == <<slideTypes, timerArmed, timerStale, prefersReducedMotion>>
vars ==
    <<catalogVars, cartVars, overlayVars, histVars, callVars, carouselVars, headerVars,
      lockVars, videoVars, flyVars>>

Null == "null"

(***************************************************************************)
(* Bounds of the model.                                                    *)
(***************************************************************************)
MaxQty == 1            \* largest quantity an add/inc may reach
MaxStoredKeys == 1     \* most keys of a stored JSON object at startup
MaxOps == 4            \* most counted inc/dec calls in the counting spec
MaxItems == 3          \* longest catalog in the filter spec
MaxSlides == 3         \* longest slide list
MaxJump == 4           \* go(n) is called with n in -MaxJump..MaxJump

Min(S) == CHOOSE x \in S : \A y \in S : x <= y
Max(S) == CHOOSE x \in S : \A y \in S : x >= y

(***************************************************************************)
(* menuData.ts                                                             *)
(***************************************************************************)
Market == [kind |-> "market"]
Fixed(rm) == [kind |-> "fixed", rm |-> rm]
Item(id, category, tags, price) ==
    [id |-> id, category |-> category, tags |-> tags, price |-> price]

categories ==
    <<"All", "BEEF BBQ", "PORK BBQ", "OTHER BBQ", "HOTPOT", "STEW",
      "SIDEDISH", "RICE", "NOODLES", "BEVERAGES">>

menuData ==
    << Item("beef-bbq-1", "BEEF BBQ", {"Best"}, Market),
       Item("beef-bbq-2", "BEEF BBQ", {}, Market),
       Item("beef-bbq-3", "BEEF BBQ", {}, Market),
       Item("beef-bbq-4", "BEEF BBQ", {}, Market),
       Item("pork-bbq-1", "PORK BBQ", {"Best"}, Market),
       Item("hotpot-1", "HOTPOT", {}, Fixed(140)),
       Item("stew-1", "STEW", {}, Fixed(32)),
       Item("side-1", "SIDEDISH", {}, Fixed(40)),
       Item("noodles-1", "NOODLES", {}, Fixed(30)),
       Item("noodles-2", "NOODLES", {}, Fixed(30)) >>

\* Later builds of the catalog, as seen by a stored cart of an earlier session:
\* one where "side-1" has become market-priced, one where "stew-1" was deleted.
menuDataSideMarket ==
    [i \in DOMAIN menuData |->
        IF menuData[i].id = "side-1"
        THEN [menuData[i] EXCEPT !.price = Market] ELSE menuData[i]]
menuDataNoStew == SelectSeq(menuData, LAMBDA it : it.id # "stew-1")
Builds == {menuData, menuDataSideMarket, menuDataNoStew}

\* ids the handlers are called with: two fixed-price ids, a market id, an
\* id that is in no catalog
CartIds == {"stew-1", "side-1", "beef-bbq-1", "no-such-id"}
TrackedId == "stew-1"

(***************************************************************************)
(* Array.prototype.find over the catalog: the first item with that id      *)
(***************************************************************************)
Undefined == [undefined |-> TRUE]
find(cat, id) ==
    LET S == {i \in DOMAIN cat : cat[i].id = id}
    IN  IF S = {} THEN Undefined ELSE cat[Min(S)]

(***************************************************************************)
(* JavaScript values read back from storage.  A JS number is finite (its   *)
(* value h in half units), an infinity or NaN.                             *)
(***************************************************************************)
Fin(h) == [c |-> "fin", h |-> h]
Infinity == [c |-> "inf", h |-> 0]
NaN == [c |-> "nan", h |-> 0]

JNum(n) == [k |-> "number", n |-> n]          \* a JSON number
JStr(n) == [k |-> "string", n |-> n]          \* a JSON string; n = Number(string)
JNull == [k |-> "null"]
JTrue == [k |-> "true"]
JObj(e) == [k |-> "object", e |-> e]          \* a JSON object, key -> value

\* typeof v === "number" ? v : Number(v)
Number(v) ==
    CASE v.k = "number" -> v.n
      [] v.k = "string" -> v.n
      [] v.k = "null" -> Fin(0)
      [] v.k = "true" -> Fin(2)
      [] OTHER -> NaN
isFinite(q) == q.c = "fin"
MathFloor(h) == 2 * (h \div 2)

\* The text under the storage key: none (getItem gives null), the empty
\* string, text JSON.parse rejects, or the text of a JSON value.
NoKey == [t |-> "null"]
EmptyText == [t |-> "empty"]
Garbage == [t |-> "garbage"]
Json(v) == [t |-> "json", v |-> v]

EmptyCart == << >>

\* JSON.stringify(cart): an object of finite numbers
JSONstringify(c) == Json(JObj([id \in DOMAIN c |-> JNum(Fin(c[id]))]))

(***************************************************************************)
(* Menu.tsx: the cart store                                                *)
(***************************************************************************)
\* sanitize of the useState initializer: keeps the entries whose value converts
\* to a finite number > 0 and whose id is a fixed-price item of the catalog,
\* with the quantity floored
\* variant: the market-price check left out
sanitizeKeepsAnyPrice(e, cat, id) ==
    LET qty == Number(e[id])
        it == find(cat, id)
    IN  /\ isFinite(qty) /\ ~(qty.h <= 0)
        /\ it # Undefined
sanitizeKeeps(e, cat, id) ==
    LET qty == Number(e[id])
        it == find(cat, id)
    IN  /\ isFinite(qty) /\ ~(qty.h <= 0)
        /\ it # Undefined
        /\ it.price.kind # "market"
sanitize(obj, cat) ==
    IF obj.k # "object" THEN EmptyCart
    ELSE [id \in {x \in DOMAIN obj.e : sanitizeKeeps(obj.e, cat, x)} |->
             MathFloor(Number(obj.e[id]).h)]

\* variant: the stored value used although getItem threw
cartInitializerNoCatch(raw, cat, readOk) ==
    IF raw.t \in {"null", "empty", "garbage"} THEN EmptyCart
    ELSE sanitize(raw.v, cat)
\* the useState initializer: getItem, JSON.parse and sanitize inside try/catch;
\* readOk = FALSE is localStorage.getItem throwing
cartInitializer(raw, cat, readOk) ==
    IF ~readOk THEN EmptyCart
    ELSE IF raw.t \in {"null", "empty"} THEN EmptyCart
    ELSE IF raw.t = "garbage" THEN EmptyCart
    ELSE sanitize(raw.v, cat)

\* variant: the removeItem branch for the empty cart left out
persistEffectNoRemove(c, st, writeOk) ==
    IF ~writeOk THEN st
    ELSE IF DOMAIN c = {} THEN st
    ELSE JSONstringify(c)
\* the persist effect (runs after every render that changed `cart`);
\* writeOk = FALSE is removeItem/setItem throwing, which is swallowed
persistEffect(c, st, writeOk) ==
    IF ~writeOk THEN st
    ELSE IF DOMAIN c = {} THEN NoKey
    ELSE JSONstringify(c)

\* prev[id] ?? 0
qtyOf(c, id) == IF id \in DOMAIN c THEN c[id] ELSE 0

\* the updater of addToCart / incCart: {...prev, [id]: (prev[id] ?? 0) + 1}
incUpdater(prev, id) ==
    [k \in DOMAIN prev \cup {id} |-> IF k = id THEN qtyOf(prev, id) + 2 ELSE prev[k]]

\* variant: removes the entry only below zero (v < 0 for v <= 0)
decUpdaterKeepsZero(prev, id) ==
    LET v == qtyOf(prev, id) - 2
    IN  IF v < 0 THEN [k \in DOMAIN prev \ {id} |-> prev[k]]
        ELSE [k \in DOMAIN prev \cup {id} |-> IF k = id THEN v ELSE prev[k]]
\* the updater of decCart
decUpdater(prev, id) ==
    LET v == qtyOf(prev, id) - 2
    IN  IF v <= 0 THEN [k \in DOMAIN prev \ {id} |-> prev[k]]
        ELSE [k \in DOMAIN prev \cup {id} |-> IF k = id THEN v ELSE prev[k]]

\* variant: only the unknown id is rejected
rejectsUnknownOnly(cat, id) == find(cat, id) = Undefined
\* addToCart / incCart reject an id that is not in the catalog or is market-priced
rejects(cat, id) ==
    LET it == find(cat, id)
    IN  IF it = Undefined THEN TRUE ELSE it.price.kind = "market"

(***************************************************************************)
(* Menu.tsx: category filter and sort (Best first)                         *)
(***************************************************************************)
tagScore(tags) ==
    IF tags = {} THEN 0
    ELSE IF "Best" \in tags THEN 1 ELSE 0

\* variant: the score difference taken the other way round (Best last)
compareBestLast(a, b) ==
    LET s == tagScore(a.it.tags) - tagScore(b.it.tags)
    IN  IF s # 0 THEN s ELSE a.idx - b.idx
\* the comparator handed to Array.prototype.sort; a and b are {it, idx}
compare(a, b) ==
    LET s == tagScore(b.it.tags) - tagScore(a.it.tags)
    IN  IF s # 0 THEN s ELSE a.idx - b.idx

\* Array.prototype.sort with that comparator, as a stable insertion sort:
\* insert x after the last element it does not sort before
RECURSIVE insert(_, _)
insert(sorted, x) ==
    IF sorted = << >> THEN <<x>>
    ELSE LET last == sorted[Len(sorted)]
         IN  IF compare(x, last) < 0
             THEN Append(insert(SubSeq(sorted, 1, Len(sorted) - 1), x), last)
             ELSE Append(sorted, x)
RECURSIVE sort(_)
sort(s) ==
    IF s = << >> THEN << >>
    ELSE insert(sort(SubSeq(s, 1, Len(s) - 1)), s[Len(s)])

getItemsForCategory(cat, c) ==
    LET indexed == [i \in DOMAIN cat |-> [it |-> cat[i], idx |-> i - 1]]
        filtered == IF c = "All" THEN indexed
                    ELSE SelectSeq(indexed, LAMBDA e : e.it.category = c)
        sorted == sort(filtered)
    IN  [i \in DOMAIN sorted |-> sorted[i].it]

\* const list = useMemo(() => getItemsForCategory(active), [active])
list == getItemsForCategory(items, active)

\* The array that .sort reorders in place.  items.map builds the new array
\* `indexed`; for "All" `filtered` is `indexed` itself (no filtering copy),
\* otherwise it is the array built by filter.
\* variant: the sort applied to `items` itself for "All" (no items.map copy)
sortedInPlaceNoCopy(c) == IF c = "All" THEN "items" ELSE "filtered"
sortedInPlace(c) == IF c = "All" THEN "indexed" ELSE "filtered"
\* the module-level array `items` after a call getItemsForCategory(c)
itemsAfterCall(cat, c) ==
    IF sortedInPlace(c) = "items" THEN getItemsForCategory(cat, c) ELSE cat

(***************************************************************************)
(* The scroll lock of the Lightbox (Menu.tsx) and of the mobile navigation *)
(* (App.tsx): an effect keyed on the open flag that captures               *)
(* document.body.style.overflow in `prev` and sets "hidden"; its cleanup   *)
(* writes `prev` back.                                                     *)
(***************************************************************************)
\* variant: a lock that leaves the overflow value alone when it opens
lockOverflowNever(was, now, ov, saved) ==
    IF was = now THEN ov ELSE IF now THEN ov ELSE saved
\* body overflow after a render in which the flag went from was to now
lockOverflow(was, now, ov, saved) ==
    IF was = now THEN ov ELSE IF now THEN "hidden" ELSE saved
\* the captured `prev` after that render
lockPrev(was, now, ov, saved) == IF ~was /\ now THEN ov ELSE saved

(***************************************************************************)
(* The state of each part before it is used; a specification of one part   *)
(* keeps the other parts in this state.                                    *)
(***************************************************************************)
NoNav == [op |-> "none", n |-> 0]
NoCall == [op |-> "none", id |-> Null]
Call(op, id) == [op |-> op, id |-> id]

CatalogIdle == items = menuData /\ active = "All"
CartIdle == mounted = FALSE /\ cart = EmptyCart /\ stored = NoKey /\ writesOk = TRUE
OverlayIdle ==
    /\ fabOpen = FALSE /\ cartOpen = FALSE
    /\ panelMounted = FALSE /\ cartMounted = FALSE
    /\ lightboxItem = Null /\ cartPageOpen = FALSE
    /\ pendingScrollTop = FALSE
    /\ topScroll = "none" /\ panelClosing = FALSE /\ cartClosing = FALSE
    /\ menuTicking = FALSE /\ menuRafStale = 0
FlyIdle == flyTimers = 0
LockIdle == bodyOverflow = "" /\ lightboxPrev = "" /\ navPrev = ""
TimerIdle == slideTypes = << >> /\ timerArmed = FALSE /\ timerStale = FALSE
VideoIdle == TimerIdle /\ prefersReducedMotion = FALSE
HistIdle == nInc = 0 /\ nDec = 0 /\ nDecNoop = 0
CallIdle == lastCall = NoCall
CarouselIdle ==
    /\ slides = 0 /\ idx = 0
    /\ touchStartX = << >> /\ touchDeltaX = 0
    /\ lastNav = NoNav
HeaderIdle ==
    /\ isQr = FALSE /\ mobileNavOpen = FALSE /\ listening = TRUE
    /\ hidden = FALSE /\ hiddenRef = FALSE
    /\ lastYRef = 0 /\ tickingRef = FALSE /\ rafQueued = 0
    /\ scrollY = 0

(***************************************************************************)
(* SpecFilter: getItemsForCategory applied to every small catalog          *)
(***************************************************************************)
FilterIds == <<"m1", "m2", "m3", "m4", "m5">>
FilterCategories == {"STEW", "RICE"}
FilterTags == {{}, {"Best"}, {"Spicy"}}
FilterPicks == {"All", "STEW", "RICE"}

\* the catalogs of n items: item i has id FilterIds[i]
FilterCatalogsOfLen(n) ==
    {[i \in 1..n |-> Item(FilterIds[i], f[i][1], f[i][2], Fixed(30))] :
        f \in [1..n -> FilterCategories \X FilterTags]}
FilterCatalogs == UNION {FilterCatalogsOfLen(n) : n \in 0..MaxItems}

FilterInit ==
    /\ items \in FilterCatalogs
    /\ active = "All"
    /\ CartIdle /\ OverlayIdle /\ HistIdle /\ FlyIdle /\ CallIdle /\ LockIdle /\ VideoIdle /\ CarouselIdle /\ HeaderIdle

\* setActive(c) with a new category; the render that follows recomputes the
\* memoized list with a call getItemsForCategory(c)
setActive(c) ==
    /\ c # active
    /\ active' = c
    /\ items' = itemsAfterCall(items, c)
    /\ lastCall' = Call("setActive", c)
    /\ UNCHANGED <<cartVars, overlayVars, histVars, carouselVars, headerVars,
                   lockVars, videoVars, flyVars>>

FilterNext == \E c \in FilterPicks : setActive(c)
SpecFilter == FilterInit /\ [][FilterNext]_vars

IsBest(it) == "Best" \in it.tags
PosIn(cat, it) == Min({i \in DOMAIN cat : cat[i] = it})

\* C1: the list shown for the selected category holds exactly the catalog
\* items of that category (all items for "All"), each once, every Best item
\* before every other item, and items of equal rank in catalog order.
C1_FilterSort ==
    LET want == {i \in DOMAIN items : active = "All" \/ items[i].category = active}
    IN  /\ Len(list) = Cardinality(want)
        /\ {list[k] : k \in DOMAIN list} = {items[i] : i \in want}
        /\ \A j, k \in DOMAIN list : j # k => list[j] # list[k]
        /\ \A j, k \in DOMAIN list :
              j < k => ~(~IsBest(list[j]) /\ IsBest(list[k]))
        /\ \A j, k \in DOMAIN list :
              (j < k /\ IsBest(list[j]) = IsBest(list[k]))
                  => PosIn(items, list[j]) < PosIn(items, list[k])

\* the scenario [A(X), B(X, Best), C(Y)] filtered by X gives [B, A]
C1_Witness ==
    /\ Len(items) = 3 /\ active = "STEW"
    /\ items[1].category = "STEW" /\ ~IsBest(items[1])
    /\ items[2].category = "STEW" /\ IsBest(items[2])
    /\ items[3].category = "RICE"
    /\ list = <<items[2], items[1]>>

MenuMount(cat, readOk, writeOk) ==
    /\ ~mounted
    /\ mounted' = TRUE
    /\ items' = cat
    /\ active' = "All"
    /\ cart' = cartInitializer(stored, cat, readOk)
    /\ stored' = persistEffect(cart', stored, writeOk)
    /\ writesOk' = (writesOk /\ writeOk)
    /\ fabOpen' = FALSE /\ cartOpen' = FALSE
    /\ panelMounted' = FALSE /\ cartMounted' = FALSE
    /\ lightboxItem' = Null /\ cartPageOpen' = FALSE
    /\ pendingScrollTop' = FALSE
    /\ topScroll' = "none" /\ panelClosing' = FALSE /\ cartClosing' = FALSE
    /\ menuTicking' = FALSE /\ menuRafStale' = menuRafStale
    /\ lastCall' = Call("mount", IF readOk THEN "read" ELSE "readThrew")
    /\ UNCHANGED lockVars

\* Leaving the page (navigation or reload): the component state is dropped.
MenuUnmount ==
    /\ mounted
    /\ mounted' = FALSE
    /\ cart' = EmptyCart
    /\ active' = "All"
    /\ fabOpen' = FALSE /\ cartOpen' = FALSE
    /\ panelMounted' = FALSE /\ cartMounted' = FALSE
    /\ lightboxItem' = Null /\ cartPageOpen' = FALSE
    /\ pendingScrollTop' = FALSE
    /\ topScroll' = "none" /\ panelClosing' = FALSE /\ cartClosing' = FALSE
    \* the cleanup of the floating-visibility effect removes the listener; a
    \* queued `update` stays queued
    /\ menuTicking' = FALSE
    /\ menuRafStale' = menuRafStale + (IF menuTicking THEN 1 ELSE 0)
    /\ lastCall' = Call("unmount", Null)
    /\ bodyOverflow' = lockOverflow(lightboxItem # Null, FALSE, bodyOverflow, lightboxPrev)
    /\ UNCHANGED <<items, stored, writesOk, lightboxPrev, navPrev>>

addToCart(id, writeOk) ==
    /\ mounted
    /\ IF rejects(items, id)
       THEN UNCHANGED <<cart, stored, writesOk>>
       ELSE /\ cart' = incUpdater(cart, id)
            /\ stored' = persistEffect(cart', stored, writeOk)
            /\ writesOk' = (writesOk /\ writeOk)
    /\ lastCall' = Call("addToCart", id)
    /\ UNCHANGED <<mounted, catalogVars, overlayVars, lockVars>>

incCart(id, writeOk) ==
    /\ mounted
    /\ IF rejects(items, id)
       THEN UNCHANGED <<cart, stored, writesOk>>
       ELSE /\ cart' = incUpdater(cart, id)
            /\ stored' = persistEffect(cart', stored, writeOk)
            /\ writesOk' = (writesOk /\ writeOk)
    /\ lastCall' = Call("incCart", id)
    /\ UNCHANGED <<mounted, catalogVars, overlayVars, lockVars>>

decCart(id, writeOk) ==
    /\ mounted
    /\ cart' = decUpdater(cart, id)
    /\ stored' = persistEffect(cart', stored, writeOk)
    /\ writesOk' = (writesOk /\ writeOk)
    /\ lastCall' = Call("decCart", id)
    /\ UNCHANGED <<mounted, catalogVars, overlayVars, lockVars>>

\* variant: the answer of window.confirm ignored
clearsUnasked(c, ok) == DOMAIN c # {}
\* clearCart goes on to setCart({}): the cart is not empty and window.confirm,
\* asked only then, returned ok
clears(c, ok) == DOMAIN c # {} /\ ok

\* clearCart: nothing on an empty cart; otherwise window.confirm, then
\* setCart({}), removeItem, and the persist effect's removeItem
clearCart(ok, removeOk, writeOk) ==
    /\ mounted
    /\ IF ~clears(cart, ok)
       THEN UNCHANGED <<cart, stored, writesOk>>
       ELSE /\ cart' = EmptyCart
            /\ stored' = persistEffect(cart', IF removeOk THEN NoKey ELSE stored, writeOk)
            /\ writesOk' = (writesOk /\ removeOk /\ writeOk)
    /\ lastCall' = Call("clearCart", IF DOMAIN cart = {} THEN "notAsked"
                                     ELSE IF ok THEN "confirmed" ELSE "declined")
    /\ UNCHANGED <<mounted, catalogVars, overlayVars, lockVars>>

(***************************************************************************)
(* Menu.tsx: cartItems and cartTotals.  Quantities are in half units, a     *)
(* line total rm * qty is in half RM, and totalRm is kept in units of       *)
(* 1/200 RM (half cents), so 12800 stands for RM 64.00.                     *)
(***************************************************************************)
\* new Map(items.map(it => [id, it])).get(id): the last item with that id
mapGet(cat, id) ==
    LET S == {i \in DOMAIN cat : cat[i].id = id}
    IN  IF S = {} THEN Undefined ELSE cat[Max(S)]

\* cartItems: the entries with qty > 0 whose id the catalog has (by id)
cartItems(c, cat) == {id \in DOMAIN c : c[id] > 0 /\ mapGet(cat, id) # Undefined}

\* variant: the unit price added once for an entry, whatever its quantity
lineTotalUnit(rm, qty) == rm * 2
\* item.price.rm * qty
lineTotal(rm, qty) == rm * qty

\* the loop of cartTotals over the entries ids
RECURSIVE sumRm(_, _, _)
sumRm(c, cat, ids) ==
    IF ids = {} THEN 0
    ELSE LET id == CHOOSE x \in ids : TRUE
             it == mapGet(cat, id)
         IN  (IF it.price.kind = "market" THEN 0 ELSE lineTotal(it.price.rm, c[id]))
                + sumRm(c, cat, ids \ {id})

\* Math.round on half units: the nearest integer, halves upwards
MathRound(h) == 2 * ((h + 1) \div 2)

\* cartTotals: {totalRm: Math.round(totalRm * 100) / 100, hasMarket}
cartTotals(c, cat) ==
    [totalRm |-> MathRound(100 * sumRm(c, cat, cartItems(c, cat))),
     hasMarket |-> \E id \in cartItems(c, cat) : mapGet(cat, id).price.kind = "market"]

(***************************************************************************)
(* SpecCart: the cart from any stored value, across sessions and builds    *)
(***************************************************************************)
StoredNumbers == {Fin(0 - 2), Fin(0), Fin(1), Fin(2), Fin(3), Infinity}
StoredVals ==
    {JNum(n) : n \in StoredNumbers} \cup {JStr(Fin(4)), JStr(NaN), JNull, JTrue}
StoredObjects ==
    UNION {[K -> StoredVals] :
              K \in {S \in SUBSET CartIds : Cardinality(S) <= MaxStoredKeys}}
InitStored ==
    {NoKey, EmptyText, Garbage, Json(JNum(Fin(2))), Json(JNull)}
        \cup {Json(JObj(e)) : e \in StoredObjects}

\* an add/inc the model still follows: the quantity stays within MaxQty
WithinMaxQty(id) == rejects(items, id) \/ qtyOf(cart, id) < 2 * MaxQty

CartInit ==
    /\ CatalogIdle
    /\ mounted = FALSE /\ cart = EmptyCart /\ writesOk = TRUE
    /\ stored \in InitStored
    /\ OverlayIdle /\ HistIdle /\ FlyIdle /\ CallIdle /\ LockIdle /\ VideoIdle /\ CarouselIdle /\ HeaderIdle

otherThanMenu == <<histVars, carouselVars, headerVars, videoVars, flyVars>>

CartMount ==
    /\ \E cat \in Builds, readOk, writeOk \in BOOLEAN : MenuMount(cat, readOk, writeOk)
    /\ UNCHANGED otherThanMenu
CartUnmount == MenuUnmount /\ UNCHANGED otherThanMenu
CartAdd ==
    /\ \E id \in CartIds, writeOk \in BOOLEAN : WithinMaxQty(id) /\ addToCart(id, writeOk)
    /\ UNCHANGED otherThanMenu
CartInc ==
    /\ \E id \in CartIds, writeOk \in BOOLEAN : WithinMaxQty(id) /\ incCart(id, writeOk)
    /\ UNCHANGED otherThanMenu
CartDec ==
    /\ \E id \in CartIds, writeOk \in BOOLEAN : decCart(id, writeOk)
    /\ UNCHANGED otherThanMenu
CartClear ==
    /\ \E ok, removeOk, writeOk \in BOOLEAN : clearCart(ok, removeOk, writeOk)
    /\ UNCHANGED otherThanMenu

CartNext == CartMount \/ CartUnmount \/ CartAdd \/ CartInc \/ CartDec \/ CartClear
SpecCart == CartInit /\ [][CartNext]_vars

\* the ids of a catalog that have a fixed price
FixedIds(cat) == {cat[i].id : i \in {j \in DOMAIN cat : cat[j].price.kind = "fixed"}}

\* C3: in every reachable cart state, rehydrated ones included, every
\* quantity in the cart is a positive integer.
C3_PositiveInteger ==
    \A id \in DOMAIN cart : cart[id] > 0 /\ cart[id] % 2 = 0

\* C4: no reachable cart holds an item whose price in the running catalog is
\* market (nor an id the catalog does not have).
C4_NoMarketInCart ==
    \A id \in DOMAIN cart : id \in FixedIds(items)

\* the app stored {"side-1": 1}, the next build prices side-1 at market, and
\* the mount under that build dropped it (the write-back failed, so the stored
\* value still lists it)
C4_Witness ==
    /\ mounted /\ lastCall.op = "mount"
    /\ items = menuDataSideMarket
    /\ stored = JSONstringify([id \in {"side-1"} |-> 2])
    /\ cart = EmptyCart

\* C5: addToCart / incCart with an id that is unknown or market-priced, and
\* decCart with an id that has no entry, leave the cart map as it was and the
\* component mounted.
C5_InvalidMutationNoop ==
    [][ ( \/ /\ lastCall'.op \in {"addToCart", "incCart"}
             /\ lastCall'.id \notin FixedIds(items)
          \/ /\ lastCall'.op = "decCart"
             /\ lastCall'.id \notin DOMAIN cart )
        => (cart' = cart /\ mounted') ]_vars

\* a market-price add was made on a cart that holds a fixed-price item
C5_Witness ==
    /\ lastCall = Call("addToCart", "beef-bbq-1")
    /\ items = menuData
    /\ DOMAIN cart = {"stew-1"}

\* C6: a cart the app has persisted reloads to the same map, less the
\* entries whose id the catalog of the reload lacks or prices at market.
C6_RoundTrip ==
    (mounted /\ stored = persistEffect(cart, stored, TRUE))
        => \A cat \in Builds :
              cartInitializer(stored, cat, TRUE)
                  = [id \in DOMAIN cart \cap FixedIds(cat) |-> cart[id]]

\* the state follows a call that reached setCart
AppliedMutation ==
    \/ lastCall.op \in {"addToCart", "incCart"} /\ lastCall.id \in FixedIds(items)
    \/ lastCall.op = "decCart"
    \/ lastCall = Call("clearCart", "confirmed")

C17_StoredIsSerialization ==
    (mounted /\ writesOk /\ AppliedMutation)
        => stored = JSONstringify(cart)

\* C17, amended: after a cart mutation, no storage write having failed, the
\* stored value is the JSON serialization of the cart map when the map is
\* not empty, and the key is absent when the map is empty.
C17_StoredDescribesCart ==
    (mounted /\ writesOk /\ AppliedMutation)
        => stored = IF DOMAIN cart = {} THEN NoKey ELSE JSONstringify(cart)

\* an increment has been stored
C17_Witness ==
    /\ mounted /\ writesOk /\ lastCall = Call("incCart", "stew-1")
    /\ "stew-1" \in DOMAIN cart /\ stored = JSONstringify(cart)

\* C18: a mount whose read throws, or that finds text that is not JSON or a
\* JSON value that is not an object, starts with the empty cart; and whether
\* or not a storage write or remove throws, now or earlier, a mutation leaves
\* its result in the cart and the component stays mounted.
C18_StorageFailuresAbsorbed ==
    [][ /\ ( /\ lastCall'.op = "mount"
             /\ \/ lastCall'.id = "readThrew"
                \/ stored.t \in {"empty", "garbage"}
                \/ stored.t = "json" /\ stored.v.k # "object" )
           => (mounted' /\ cart' = EmptyCart)
        /\ (lastCall'.op \in {"addToCart", "incCart"} /\ lastCall'.id \in FixedIds(items))
           => (mounted' /\ cart' = incUpdater(cart, lastCall'.id))
        /\ lastCall'.op = "decCart"
           => (mounted' /\ cart' = decUpdater(cart, lastCall'.id))
        /\ lastCall' = Call("clearCart", "confirmed")
           => (mounted' /\ cart' = EmptyCart) ]_vars

\* after a failed write an increment has still been applied
C18_Witness ==
    /\ mounted /\ ~writesOk /\ lastCall = Call("incCart", "stew-1")
    /\ "stew-1" \in DOMAIN cart /\ stored # JSONstringify(cart)

\* C29: cartTotals.hasMarket is false in every reachable state.
C29_NeverHasMarket == cartTotals(cart, items).hasMarket = FALSE

\* incCart was called with a market-price id on a cart with a priced entry,
\* and the totals carry a price and no market flag
C29_Witness ==
    /\ mounted /\ lastCall = Call("incCart", "beef-bbq-1")
    /\ items = menuData /\ "stew-1" \in DOMAIN cart
    /\ cartTotals(cart, items).totalRm > 0
    /\ ~cartTotals(cart, items).hasMarket

\* what the persist effect leaves under the key for the cart c
normalized(c) == IF DOMAIN c = {} THEN NoKey ELSE JSONstringify(c)

CountInit ==
    /\ CatalogIdle
    /\ mounted = TRUE /\ cart = EmptyCart /\ stored = NoKey /\ writesOk = TRUE
    /\ OverlayIdle /\ HistIdle /\ FlyIdle /\ CallIdle /\ LockIdle /\ VideoIdle /\ CarouselIdle /\ HeaderIdle

\* the model follows MaxOps counted calls, and other ids up to MaxQty
Countable(id) ==
    IF id = TrackedId THEN nInc + nDec < MaxOps ELSE WithinMaxQty(id)
CountedInc(id) ==
    /\ nInc' = IF id = TrackedId THEN nInc + 1 ELSE nInc
    /\ UNCHANGED <<nDec, nDecNoop>>
CountedDec(id) ==
    /\ nDec' = IF id = TrackedId THEN nDec + 1 ELSE nDec
    /\ nDecNoop' = IF id = TrackedId /\ id \notin DOMAIN cart
                   THEN nDecNoop + 1 ELSE nDecNoop
    /\ UNCHANGED nInc

CountAdd ==
    /\ \E id \in CartIds, writeOk \in BOOLEAN :
          Countable(id) /\ addToCart(id, writeOk) /\ CountedInc(id)
    /\ UNCHANGED <<carouselVars, headerVars, videoVars, flyVars>>
CountInc ==
    /\ \E id \in CartIds, writeOk \in BOOLEAN :
          Countable(id) /\ incCart(id, writeOk) /\ CountedInc(id)
    /\ UNCHANGED <<carouselVars, headerVars, videoVars, flyVars>>
CountDec ==
    /\ \E id \in CartIds, writeOk \in BOOLEAN :
          Countable(id) /\ decCart(id, writeOk) /\ CountedDec(id)
    /\ UNCHANGED <<carouselVars, headerVars, videoVars, flyVars>>

CountNext == CountAdd \/ CountInc \/ CountDec
SpecCount == CountInit /\ [][CountNext]_vars

\* C2 as stated: the quantity of the id is (increments - decrements) floored
\* at 0, and the id is absent when that is 0.
C2_NetFlooredAtZero ==
    LET net == Max({0, nInc - nDec})
    IN  /\ qtyOf(cart, TrackedId) = 2 * net
        /\ (net = 0 => TrackedId \notin DOMAIN cart)

\* C2 amended: the quantity is the increments less the decrements that found
\* an entry (a decrement of an absent id changes nothing), and the id has no
\* entry when that is 0.
C2_NetOfAppliedCalls ==
    LET net == nInc - (nDec - nDecNoop)
    IN  /\ net >= 0
        /\ qtyOf(cart, TrackedId) = 2 * net
        /\ (net = 0 => TrackedId \notin DOMAIN cart)

\* dec on the empty cart, then inc, inc, dec: one unit is left
C2_Witness ==
    /\ nInc = 2 /\ nDec = 2 /\ nDecNoop = 1
    /\ TrackedId \in DOMAIN cart /\ cart[TrackedId] = 2

\* the price of id in a catalog that has it at a fixed price
PriceRm(cat, id) == (CHOOSE it \in {cat[i] : i \in DOMAIN cat} : it.id = id).price.rm
RECURSIVE SumOver(_, _, _)
SumOver(c, cat, ids) ==
    IF ids = {} THEN 0
    ELSE LET id == CHOOSE x \in ids : TRUE
         IN  PriceRm(cat, id) * c[id] + SumOver(c, cat, ids \ {id})
\* x half cents rounded to whole cents
RoundCents(x) == IF x % 2 = 0 THEN x ELSE x + 1

\* C16: totalRm is the sum, over the cart entries whose id has a fixed price
\* in the catalog, of unit price times quantity, rounded to two decimals;
\* entries without catalog item or at market price add nothing (checked for
\* the running catalog and for the other builds).
C16_TotalRm ==
    \A cat \in Builds :
        cartTotals(cart, cat).totalRm
            = RoundCents(100 * SumOver(cart, cat, DOMAIN cart \cap FixedIds(cat)))

\* two increments of stew-1 from the empty cart: {stew-1: 2}, total RM 64.00
C16_Witness ==
    /\ nInc = 2 /\ nDec = 0
    /\ cart = [id \in {"stew-1"} |-> 4]
    /\ cartTotals(cart, items).totalRm = 12800

(***************************************************************************)
(* Home.tsx: BannerCarousel                                                *)
(***************************************************************************)
\* the % operator of JavaScript: the remainder has the sign of the dividend
JsRem(a, n) == IF a >= 0 THEN a % n ELSE 0 - ((0 - a) % n)
Abs(x) == IF x < 0 THEN 0 - x ELSE x

SwipeThreshold == 42

\* variant: next % n without the second wrap
goIndexNoWrap(n, next, cur) == IF n = 0 THEN cur ELSE JsRem(next, n)
\* go(next): the index it sets, or the current one when there are no slides
goIndex(n, next, cur) ==
    IF n = 0 THEN cur ELSE JsRem(JsRem(next, n) + n, n)

go(n) ==
    /\ idx' = goIndex(slides, n, idx)
    /\ lastNav' = [op |-> "go", n |-> n]
    /\ UNCHANGED <<slides, touchStartX, touchDeltaX>>
prev == go(idx - 1)
next == go(idx + 1)

\* the autoplay interval's callback; the interval exists for 2 slides or more
autoplayTick ==
    /\ slides > 1
    /\ idx' = JsRem(idx + 1, slides)
    /\ lastNav' = [op |-> "auto", n |-> 0]
    /\ UNCHANGED <<slides, touchStartX, touchDeltaX>>

onTouchStart(x) ==
    /\ touchStartX' = <<x>>
    /\ touchDeltaX' = 0
    /\ UNCHANGED <<slides, idx, lastNav>>
onTouchMove(x) ==
    /\ IF touchStartX = << >> THEN UNCHANGED touchDeltaX
       ELSE touchDeltaX' = x - touchStartX[1]
    /\ UNCHANGED <<slides, idx, lastNav, touchStartX>>
onTouchEnd ==
    LET dx == touchDeltaX
    IN  /\ touchStartX' = << >>
        /\ touchDeltaX' = 0
        /\ IF Abs(dx) < SwipeThreshold THEN UNCHANGED <<idx, lastNav>>
           ELSE IF dx > 0
                THEN idx' = goIndex(slides, idx - 1, idx)
                     /\ lastNav' = [op |-> "go", n |-> idx - 1]
                ELSE idx' = goIndex(slides, idx + 1, idx)
                     /\ lastNav' = [op |-> "go", n |-> idx + 1]
        /\ UNCHANGED slides

(***************************************************************************)
(* SpecCarousel                                                            *)
(***************************************************************************)
TouchXs == {0, 41, 42, 43}
otherThanCarousel ==
    <<catalogVars, cartVars, overlayVars, histVars, callVars, headerVars, lockVars, videoVars, flyVars>>

CarouselInit ==
    /\ slides \in 0..MaxSlides
    /\ idx = 0
    /\ touchStartX = << >> /\ touchDeltaX = 0
    /\ lastNav = NoNav
    \* the viewer's setting, which this revision of BannerCarousel never reads
    /\ prefersReducedMotion \in BOOLEAN
    /\ CatalogIdle /\ CartIdle /\ OverlayIdle /\ HistIdle /\ FlyIdle /\ CallIdle /\ LockIdle /\ TimerIdle /\ HeaderIdle

CarouselGo == (\E n \in (0 - MaxJump)..MaxJump : go(n)) /\ UNCHANGED otherThanCarousel
CarouselPrev == prev /\ UNCHANGED otherThanCarousel
CarouselNext == next /\ UNCHANGED otherThanCarousel
CarouselAutoplay == autoplayTick /\ UNCHANGED otherThanCarousel
CarouselTouchStart == (\E x \in TouchXs : onTouchStart(x)) /\ UNCHANGED otherThanCarousel
CarouselTouchMove == (\E x \in TouchXs : onTouchMove(x)) /\ UNCHANGED otherThanCarousel
CarouselTouchEnd == onTouchEnd /\ UNCHANGED otherThanCarousel

CarouselNext_ ==
    \/ CarouselGo \/ CarouselPrev \/ CarouselNext \/ CarouselAutoplay
    \/ CarouselTouchStart \/ CarouselTouchMove \/ CarouselTouchEnd
SpecCarousel == CarouselInit /\ [][CarouselNext_]_vars

\* C7: with L > 0 slides a call go(n) leaves the index at n mod L, so the
\* index is always in [0, L); with no slides no call changes the index.
C7_GoWraps ==
    /\ slides > 0 => idx \in 0..(slides - 1)
    /\ (slides > 0 /\ lastNav.op = "go") => idx = lastNav.n % slides
    /\ slides = 0 => idx = 0

\* go(-4) on three slides leaves the index at 2
C7_Witness == slides = 3 /\ lastNav = [op |-> "go", n |-> 0 - 4] /\ idx = 2

\* C22: while the viewer prefers reduced motion, the index changes only by
\* manual navigation (go, prev, next, a swipe), never by the autoplay timer.
C22_NoAutoAdvanceWhenReduced ==
    [][(prefersReducedMotion /\ idx' # idx) => lastNav'.op = "go"]_vars

\* C23: a touch-end with |dx| <= 42 leaves the index unchanged, dx < -42 acts
\* as exactly one next(), dx > 42 as exactly one prev(), and the start
\* position and the delta are reset after every touch-end.
C23_SwipeThreshold ==
    [][(touchStartX # << >> /\ touchStartX' = << >>) =>
          LET dx == touchDeltaX
          IN  /\ Abs(dx) <= 42 => idx' = idx
              /\ dx < 0 - 42 => idx' = goIndex(slides, idx + 1, idx)
              /\ dx > 42 => idx' = goIndex(slides, idx - 1, idx)
              /\ touchDeltaX' = 0]_vars

\* the effect of App on a render with the new mobileNavOpen
navLock ==
    /\ bodyOverflow' = lockOverflow(mobileNavOpen, mobileNavOpen', bodyOverflow, navPrev)
    /\ navPrev' = lockPrev(mobileNavOpen, mobileNavOpen', bodyOverflow, navPrev)
    /\ UNCHANGED lightboxPrev

(***************************************************************************)
(* App.tsx: useAutoHideHeader(!isQr && !mobileNavOpen)                     *)
(***************************************************************************)
SHOW_AT_TOP_Y == 24
HIDE_DELTA == 14
SHOW_DELTA == 10

\* variant: hides from a downward move of HIDE_DELTA on (>= for >)
sampleHidesAtDelta(y, lastY, h) ==
    LET diff == y - lastY
    IN  IF y <= SHOW_AT_TOP_Y THEN FALSE
        ELSE IF diff >= HIDE_DELTA THEN TRUE
        ELSE IF diff < 0 - SHOW_DELTA THEN FALSE
        ELSE h
\* the value the frame callback leaves in hiddenRef for the offset y, the
\* recorded offset lastY and the current value h
sample(y, lastY, h) ==
    LET diff == y - lastY
    IN  IF y <= SHOW_AT_TOP_Y THEN FALSE
        ELSE IF diff > HIDE_DELTA THEN TRUE
        ELSE IF diff < 0 - SHOW_DELTA THEN FALSE
        ELSE h

\* setHiddenSafe(v): the state is set only when the ref differs from v
setHiddenSafe(v) ==
    /\ hiddenRef' = v
    /\ hidden' = IF hiddenRef = v THEN hidden ELSE v

\* the hook's effect, keyed on `enabled`, after a render with the new isQr
\* and mobileNavOpen: nothing when enabled did not change; else the old
\* effect's cleanup (removeEventListener) and the effect body
headerEffect ==
    LET was == ~isQr /\ ~mobileNavOpen
        now == ~isQr' /\ ~mobileNavOpen'
    IN  IF now = was
        THEN UNCHANGED <<listening, hidden, hiddenRef, lastYRef>>
        ELSE IF ~now
             THEN /\ setHiddenSafe(FALSE)
                  /\ listening' = FALSE
                  /\ UNCHANGED lastYRef
             ELSE /\ lastYRef' = scrollY
                  /\ listening' = TRUE
                  /\ UNCHANGED <<hidden, hiddenRef>>

\* the hamburger button of the header (the header is not rendered in QR mode)
toggleMobileNav ==
    /\ ~isQr
    /\ mobileNavOpen' = ~mobileNavOpen
    /\ isQr' = isQr
    /\ headerEffect
    /\ navLock
    /\ UNCHANGED <<tickingRef, rafQueued, scrollY>>

\* Escape while the mobile navigation is open
escapeMobileNav ==
    /\ mobileNavOpen
    /\ mobileNavOpen' = FALSE
    /\ isQr' = isQr
    /\ headerEffect
    /\ navLock
    /\ UNCHANGED <<tickingRef, rafQueued, scrollY>>

\* a change of location: isQr follows the new URL, and a changed pathname
\* closes the mobile navigation
locationChange(qr, pathChanged) ==
    /\ isQr' = qr
    /\ mobileNavOpen' = IF pathChanged THEN FALSE ELSE mobileNavOpen
    /\ headerEffect
    /\ navLock
    /\ UNCHANGED <<tickingRef, rafQueued, scrollY>>

\* the window scrolls to y; an attached listener runs onScroll
scrollTo(y) ==
    /\ y # scrollY
    /\ scrollY' = y
    /\ IF listening /\ ~tickingRef
       THEN tickingRef' = TRUE /\ rafQueued' = rafQueued + 1
       ELSE UNCHANGED <<tickingRef, rafQueued>>
    /\ UNCHANGED <<isQr, mobileNavOpen, listening, hidden, hiddenRef, lastYRef, lockVars>>

\* the animation-frame callback queued by onScroll
frame ==
    /\ rafQueued > 0
    /\ rafQueued' = rafQueued - 1
    /\ setHiddenSafe(sample(scrollY, lastYRef, hiddenRef))
    /\ lastYRef' = scrollY
    /\ tickingRef' = FALSE
    /\ UNCHANGED <<isQr, mobileNavOpen, listening, scrollY, lockVars>>

(***************************************************************************)
(* SpecHeader                                                              *)
(***************************************************************************)
ScrollOffsets == {0, 10, 24, 25, 36, 39, 40, 50}
otherThanHeader ==
    <<catalogVars, cartVars, overlayVars, histVars, callVars, carouselVars, videoVars, flyVars>>

HeaderInit ==
    /\ HeaderIdle
    /\ CatalogIdle /\ CartIdle /\ OverlayIdle /\ HistIdle /\ FlyIdle /\ CallIdle /\ LockIdle /\ VideoIdle /\ CarouselIdle

HeaderToggleNav == toggleMobileNav /\ UNCHANGED otherThanHeader
HeaderEscape == escapeMobileNav /\ UNCHANGED otherThanHeader
HeaderLocation ==
    /\ \E qr, pathChanged \in BOOLEAN : locationChange(qr, pathChanged)
    /\ UNCHANGED otherThanHeader
HeaderScroll == (\E y \in ScrollOffsets : scrollTo(y)) /\ UNCHANGED otherThanHeader
HeaderFrame == frame /\ UNCHANGED otherThanHeader

HeaderNext ==
    HeaderToggleNav \/ HeaderEscape \/ HeaderLocation \/ HeaderScroll \/ HeaderFrame
SpecHeader == HeaderInit /\ [][HeaderNext]_vars

C9_DisabledIsVisible == (isQr \/ mobileNavOpen) => ~hidden

(***************************************************************************)
(* Menu.tsx: the floating panels, the lightbox and the cart page           *)
(***************************************************************************)
RECURSIVE sumQty(_, _)
sumQty(c, ids) ==
    IF ids = {} THEN 0
    ELSE LET k == CHOOSE k \in ids : TRUE
         IN  c[k] + sumQty(c, ids \ {k})
\* cartCount: the sum of the quantities of the cart
cartCount == sumQty(cart, DOMAIN cart)

\* the overlay state of one render
overlayState ==
    [fabOpen |-> fabOpen, cartOpen |-> cartOpen,
     panelMounted |-> panelMounted, cartMounted |-> cartMounted,
     lightboxItem |-> lightboxItem, cartPageOpen |-> cartPageOpen,
     pendingScrollTop |-> pendingScrollTop,
     bodyOverflow |-> bodyOverflow, lightboxPrev |-> lightboxPrev,
     topScroll |-> topScroll,
     scrollRaf |-> FALSE,    \* the frame requested by the pendingScrollTop effect is queued
     frameFirst |-> FALSE,   \* the next animation frame comes before the next render's cleanups
     panelClosing |-> panelClosing, cartClosing |-> cartClosing,
     menuTicking |-> menuTicking, menuRafStale |-> menuRafStale]

\* an effect keyed on [cartOpen] / [fabOpen] / [lightboxItem] / [cartPageOpen]
\* runs after the render S that follows the render P when its key changed
\* variant: the effect `if (cartOpen) setFabOpen(false)` left out
cartOpenClosesFabNever(P, S) == FALSE
cartOpenClosesFab(P, S) == P.cartOpen # S.cartOpen /\ S.cartOpen
fabOpenClosesCart(P, S) == P.fabOpen # S.fabOpen /\ S.fabOpen
lightboxCloses(P, S) == P.lightboxItem # S.lightboxItem /\ S.lightboxItem # Null
cartPageCloses(P, S) == P.cartPageOpen # S.cartPageOpen /\ S.cartPageOpen
pendingScrollDeps(P, S) ==
    P.pendingScrollTop # S.pendingScrollTop \/ P.lightboxItem # S.lightboxItem
pendingScrollEffect(P, S) ==
    /\ pendingScrollDeps(P, S)
    /\ S.pendingScrollTop /\ S.lightboxItem = Null
\* the cleanup of the pendingScrollTop effect runs with a frame still queued:
\* cancelAnimationFrame(id) takes the callback out unless the frame came first
pendingScrollCleanup(P, S) == pendingScrollDeps(P, S) /\ S.scrollRaf
scrollFrameOutcome(S) == IF S.frameFirst THEN "ran" ELSE "cancelled"

\* the closing transition of a panel after the render S that follows P: it
\* starts when the panel was shown open in P and is styled closed in S, and
\* ends with the element (the floating UI is not rendered under a lightbox)
closing(wasOpen, wasMounted, wasLightbox, open, isMounted, lightbox, running) ==
    IF lightbox # Null \/ ~isMounted \/ open THEN FALSE
    ELSE IF wasOpen /\ wasMounted /\ wasLightbox = Null THEN TRUE
    ELSE running

\* one pass of the effects after the render S, in declaration order; the
\* state updates they queue make the next render
effects(P, S) ==
    [fabOpen |->
        IF lightboxCloses(P, S) \/ cartOpenClosesFab(P, S) \/ cartPageCloses(P, S)
        THEN FALSE ELSE S.fabOpen,
     cartOpen |->
        IF fabOpenClosesCart(P, S) \/ lightboxCloses(P, S) \/ cartPageCloses(P, S)
        THEN FALSE ELSE S.cartOpen,
     panelMounted |->
        IF P.fabOpen # S.fabOpen /\ S.fabOpen THEN TRUE ELSE S.panelMounted,
     cartMounted |->
        IF P.cartOpen # S.cartOpen /\ S.cartOpen THEN TRUE ELSE S.cartMounted,
     lightboxItem |-> IF cartPageCloses(P, S) THEN Null ELSE S.lightboxItem,
     cartPageOpen |-> S.cartPageOpen,
     pendingScrollTop |->
        IF pendingScrollEffect(P, S) THEN FALSE ELSE S.pendingScrollTop,
     bodyOverflow |->
        lockOverflow(P.lightboxItem # Null, S.lightboxItem # Null,
                     S.bodyOverflow, S.lightboxPrev),
     lightboxPrev |->
        lockPrev(P.lightboxItem # Null, S.lightboxItem # Null,
                 S.bodyOverflow, S.lightboxPrev),
     topScroll |->
        IF pendingScrollCleanup(P, S) THEN scrollFrameOutcome(S) ELSE S.topScroll,
     scrollRaf |->
        IF pendingScrollDeps(P, S) THEN pendingScrollEffect(P, S) ELSE S.scrollRaf,
     frameFirst |-> S.frameFirst,
     panelClosing |->
        closing(P.fabOpen, P.panelMounted, P.lightboxItem,
                S.fabOpen, S.panelMounted, S.lightboxItem, S.panelClosing),
     cartClosing |->
        closing(P.cartOpen, P.cartMounted, P.lightboxItem,
                S.cartOpen, S.cartMounted, S.lightboxItem, S.cartClosing),
     \* the floating-visibility effect is keyed on [fabOpen]: a new run has
     \* its own `ticking`, and the old run's queued `update` stays queued
     menuTicking |-> IF P.fabOpen # S.fabOpen THEN FALSE ELSE S.menuTicking,
     menuRafStale |->
        IF P.fabOpen # S.fabOpen /\ S.menuTicking
        THEN S.menuRafStale + 1 ELSE S.menuRafStale]

\* render and run effects until no effect queues an update
RECURSIVE settle(_, _)
settle(P, S) ==
    LET S2 == effects(P, S)
    IN  IF S2 = S THEN S ELSE settle(S, S2)

\* a handler's state updates S of Menu, and the value navNow of App's
\* mobileNavOpen, rendered and settled; in one commit the effects and
\* cleanups of the Lightbox (a descendant) run before those of App
commitWith(S, navNow) ==
    \* R is the one settled state
    \E R \in {settle(overlayState,
                    [S EXCEPT !.topScroll = IF S.pendingScrollTop THEN "waiting" ELSE "none"])} :
        /\ fabOpen' = R.fabOpen /\ cartOpen' = R.cartOpen
        /\ panelMounted' = R.panelMounted /\ cartMounted' = R.cartMounted
        /\ lightboxItem' = R.lightboxItem /\ cartPageOpen' = R.cartPageOpen
        /\ pendingScrollTop' = R.pendingScrollTop
        /\ topScroll' = R.topScroll
        /\ panelClosing' = R.panelClosing /\ cartClosing' = R.cartClosing
        /\ menuTicking' = R.menuTicking /\ menuRafStale' = R.menuRafStale
        /\ lightboxPrev' = R.lightboxPrev
        /\ bodyOverflow' = lockOverflow(mobileNavOpen, navNow, R.bodyOverflow, navPrev)
        /\ navPrev' = lockPrev(mobileNavOpen, navNow, R.bodyOverflow, navPrev)
\* a handler's state updates S of Menu alone
commit(S) == commitWith(S, mobileNavOpen)

\* the floating UI is rendered while no lightbox item is set (showFloating
\* is only ever set to true)
floatingRendered == mounted /\ lightboxItem = Null
Was(open) == IF open THEN "open" ELSE Null

\* the main floating button: setFabOpen(v => !v)
toggleFab ==
    /\ floatingRendered
    /\ commit([overlayState EXCEPT !.fabOpen = ~fabOpen])
    /\ lastCall' = Call("toggleFab", Was(cartOpen))
    /\ UNCHANGED <<catalogVars, cartVars>>

\* the cart floating button: setCartOpen(v => !v)
toggleCart ==
    /\ floatingRendered
    /\ commit([overlayState EXCEPT !.cartOpen = ~cartOpen])
    /\ lastCall' = Call("toggleCart", Was(fabOpen))
    /\ UNCHANGED <<catalogVars, cartVars>>

\* the backdrop, rendered while a panel is open
backdropClick ==
    /\ floatingRendered /\ (fabOpen \/ cartOpen)
    /\ commit([overlayState EXCEPT !.fabOpen = FALSE, !.cartOpen = FALSE])
    /\ lastCall' = Call("backdropClick", Null)
    /\ UNCHANGED <<catalogVars, cartVars>>

\* handlePickCategory(c), from the top bar or the category panel
handlePickCategory(c, frameFirst) ==
    /\ mounted
    /\ active' = c
    /\ commit([overlayState EXCEPT !.fabOpen = FALSE, !.pendingScrollTop = TRUE,
                                   !.frameFirst = frameFirst])
    /\ lastCall' = Call("handlePickCategory", c)
    /\ UNCHANGED <<items, cartVars>>

\* the close button of the cart panel
closeCartPanel ==
    /\ floatingRendered /\ cartMounted
    /\ commit([overlayState EXCEPT !.cartOpen = FALSE])
    /\ lastCall' = Call("closeCartPanel", Null)
    /\ UNCHANGED <<catalogVars, cartVars>>

\* onTransitionEnd of the cart panel / of the category panel
cartTransitionEnd ==
    /\ floatingRendered /\ cartMounted /\ ~cartOpen /\ cartClosing
    /\ commit([overlayState EXCEPT !.cartMounted = FALSE])
    /\ lastCall' = Call("cartTransitionEnd", Null)
    /\ UNCHANGED <<catalogVars, cartVars>>
panelTransitionEnd ==
    /\ floatingRendered /\ panelMounted /\ ~fabOpen /\ panelClosing
    /\ commit([overlayState EXCEPT !.panelMounted = FALSE])
    /\ lastCall' = Call("panelTransitionEnd", Null)
    /\ UNCHANGED <<catalogVars, cartVars>>

\* the Top button
topButton ==
    /\ floatingRendered
    /\ commit([overlayState EXCEPT !.fabOpen = FALSE])
    /\ lastCall' = Call("topButton", Null)
    /\ UNCHANGED <<catalogVars, cartVars>>

\* a window scroll event; moved: the offset changed by more than 6. The
\* handler requests a frame for `update` unless its `ticking` is set
menuRafs == menuRafStale + (IF menuTicking THEN 1 ELSE 0)
menuScroll(moved) ==
    /\ mounted
    /\ commit([overlayState EXCEPT !.fabOpen = IF fabOpen /\ moved THEN FALSE ELSE fabOpen,
                                   !.menuTicking = TRUE])
    /\ lastCall' = Call("menuScroll", Null)
    /\ UNCHANGED <<catalogVars, cartVars>>
\* an animation frame: every queued `update` runs, resets the `ticking` of
\* its own effect run and sets showFloating and showTop
menuFrame ==
    /\ menuRafs > 0
    /\ menuTicking' = FALSE /\ menuRafStale' = 0
    /\ lastCall' = Call("menuFrame", Null)
    /\ UNCHANGED <<catalogVars, cartVars, lockVars>>
    /\ UNCHANGED <<fabOpen, cartOpen, panelMounted, cartMounted, lightboxItem,
                   cartPageOpen, pendingScrollTop, topScroll, panelClosing, cartClosing>>

\* Escape on the menu page: the keydown listener of the open category panel
\* and the one of the open lightbox; no other part of Menu listens
escapeKey(frameFirst) ==
    /\ mounted
    /\ commit([overlayState EXCEPT !.fabOpen = FALSE, !.lightboxItem = Null,
                                   !.frameFirst = frameFirst])
    /\ lastCall' = Call("escapeKey", Null)
    /\ UNCHANGED <<catalogVars, cartVars>>

\* a click on the card of item id / the lightbox's onClose
openLightbox(id) ==
    /\ mounted /\ find(items, id) # Undefined
    /\ commit([overlayState EXCEPT !.lightboxItem = id])
    /\ lastCall' = Call("openLightbox", id)
    /\ UNCHANGED <<catalogVars, cartVars>>
closeLightbox(frameFirst) ==
    /\ mounted /\ lightboxItem # Null
    /\ commit([overlayState EXCEPT !.lightboxItem = Null, !.frameFirst = frameFirst])
    /\ lastCall' = Call("closeLightbox", Null)
    /\ UNCHANGED <<catalogVars, cartVars>>

\* "View cart" of the cart panel (disabled on an empty cart) / closing the
\* cart page
openCartPage ==
    /\ floatingRendered /\ cartMounted /\ cartCount # 0
    /\ commit([overlayState EXCEPT !.cartPageOpen = TRUE])
    /\ lastCall' = Call("openCartPage", Null)
    /\ UNCHANGED <<catalogVars, cartVars>>
closeCartPage ==
    /\ mounted /\ cartPageOpen
    /\ commit([overlayState EXCEPT !.cartPageOpen = FALSE])
    /\ lastCall' = Call("closeCartPage", Null)
    /\ UNCHANGED <<catalogVars, cartVars>>

(***************************************************************************)
(* SpecOverlay                                                             *)
(***************************************************************************)
MaxQueuedFrames == 2
OverlayPicks == {"All", "STEW"}
OverlayCards == {"stew-1", "beef-bbq-1"}

OverlayInit ==
    /\ CatalogIdle
    /\ mounted = TRUE /\ cart = EmptyCart /\ stored = NoKey /\ writesOk = TRUE
    /\ OverlayIdle /\ HistIdle /\ FlyIdle /\ CallIdle /\ LockIdle /\ VideoIdle /\ CarouselIdle /\ HeaderIdle

OverlayToggleFab == toggleFab /\ UNCHANGED otherThanMenu
OverlayToggleCart == toggleCart /\ UNCHANGED otherThanMenu
OverlayBackdrop == backdropClick /\ UNCHANGED otherThanMenu
OverlayPick ==
    /\ \E c \in OverlayPicks, frameFirst \in BOOLEAN : handlePickCategory(c, frameFirst)
    /\ UNCHANGED otherThanMenu
OverlayCloseCartPanel == closeCartPanel /\ UNCHANGED otherThanMenu
OverlayCartTransitionEnd == cartTransitionEnd /\ UNCHANGED otherThanMenu
OverlayPanelTransitionEnd == panelTransitionEnd /\ UNCHANGED otherThanMenu
OverlayTop == topButton /\ UNCHANGED otherThanMenu
OverlayScroll ==
    /\ menuRafStale < MaxQueuedFrames
    /\ \E moved \in BOOLEAN : menuScroll(moved)
    /\ UNCHANGED otherThanMenu
OverlayFrame == menuFrame /\ UNCHANGED otherThanMenu
OverlayEscape == (\E frameFirst \in BOOLEAN : escapeKey(frameFirst)) /\ UNCHANGED otherThanMenu
OverlayOpenLightbox == (\E id \in OverlayCards : openLightbox(id)) /\ UNCHANGED otherThanMenu
OverlayCloseLightbox ==
    (\E frameFirst \in BOOLEAN : closeLightbox(frameFirst)) /\ UNCHANGED otherThanMenu
OverlayOpenCartPage == openCartPage /\ UNCHANGED otherThanMenu
OverlayCloseCartPage == closeCartPage /\ UNCHANGED otherThanMenu
OverlayAdd ==
    /\ WithinMaxQty(TrackedId) /\ addToCart(TrackedId, TRUE)
    /\ UNCHANGED otherThanMenu

OverlayNext ==
    \/ OverlayToggleFab \/ OverlayToggleCart \/ OverlayBackdrop \/ OverlayPick
    \/ OverlayCloseCartPanel \/ OverlayCartTransitionEnd \/ OverlayPanelTransitionEnd
    \/ OverlayTop \/ OverlayScroll \/ OverlayFrame \/ OverlayEscape
    \/ OverlayOpenLightbox \/ OverlayCloseLightbox
    \/ OverlayOpenCartPage \/ OverlayCloseCartPage \/ OverlayAdd
SpecOverlay == OverlayInit /\ [][OverlayNext]_vars

\* C10: after the effects have settled the category panel and the cart panel
\* are never both open, and a toggle that opens one while the other is open
\* leaves the opened one open and the other closed.
C10_PanelsExclusive ==
    [][ /\ ~(fabOpen /\ cartOpen)
        /\ ~(fabOpen' /\ cartOpen')
        /\ (lastCall'.op = "toggleFab" /\ cartOpen) => (fabOpen' /\ ~cartOpen')
        /\ (lastCall'.op = "toggleCart" /\ fabOpen) => (cartOpen' /\ ~fabOpen') ]_vars

\* the cart button was pressed while the category panel was open
C10_Witness ==
    /\ lastCall = Call("toggleCart", "open")
    /\ cartOpen /\ ~fabOpen /\ cartMounted /\ panelMounted

\* C24: the frame callback that the pendingScrollTop effect schedules for a
\* category pick is not cancelled before it runs: once the pick's effect has
\* run (the lightbox, if open, has closed) the scroll to top has executed.
C24_ScrollTopExecutes ==
    /\ topScroll # "cancelled"
    /\ (lastCall.op = "handlePickCategory" /\ lightboxItem = Null) => topScroll = "ran"

\* C25: the scroll to top of a category pick executes neither while the
\* category panel is in its closing transition (fabOpen false, panelMounted
\* true) nor while the lightbox is open.
C25_ScrollTopAfterClosing ==
    topScroll = "ran" => (~(~fabOpen /\ panelMounted) /\ lightboxItem = Null)

\* C27: the floating-visibility scroll handler of Menu has at most one
\* animation-frame callback queued at any time.
C27_OneFrameQueued == menuRafs <= 1

\* C28: an open panel is mounted, and a closed panel that is still mounted
\* is in its closing transition, whose end unmounts it.
C28_MountedFollowsOpen ==
    /\ fabOpen => panelMounted
    /\ cartOpen => cartMounted
    /\ (panelMounted /\ ~fabOpen) => panelClosing
    /\ (cartMounted /\ ~cartOpen) => cartClosing

(***************************************************************************)
(* Menu.tsx: flyToCart, called by the Add buttons of a card before          *)
(* addToCart                                                                *)
(***************************************************************************)
\* the pending cleanup timeouts after flyToCart(imgEl): it returns early
\* without the cart button (cartBtnRef.current, part of the floating UI) and
\* only bounces the button under reduced motion; otherwise it sets a timeout
flights(n, hasTarget, reduced) == IF hasTarget /\ ~reduced THEN n + 1 ELSE n
flyToCart(reduced) == flyTimers' = flights(flyTimers, floatingRendered, reduced)

\* the timeout callback: ghost.remove() and bounceCartButton()
flyTimeout ==
    /\ flyTimers > 0
    /\ flyTimers' = flyTimers - 1
    /\ lastCall' = Call("flyTimeout", IF mounted THEN "mounted" ELSE "unmounted")
    /\ UNCHANGED <<catalogVars, cartVars, overlayVars, lockVars>>

(***************************************************************************)
(* SpecTeardown: the menu page with its timeouts and frames, left and       *)
(* entered again                                                            *)
(***************************************************************************)
MaxFlights == 2
otherThanFly == <<histVars, carouselVars, headerVars, videoVars>>

TeardownInit == OverlayInit

TeardownCardAdd ==
    /\ WithinMaxQty(TrackedId) /\ flyTimers < MaxFlights
    /\ addToCart(TrackedId, TRUE)
    /\ \E reduced \in BOOLEAN : flyToCart(reduced)
    /\ UNCHANGED otherThanFly
TeardownDec == decCart(TrackedId, TRUE) /\ UNCHANGED otherThanMenu
TeardownFlyTimeout == flyTimeout /\ UNCHANGED otherThanFly
TeardownUnmount == MenuUnmount /\ UNCHANGED otherThanMenu
TeardownMount == MenuMount(menuData, TRUE, TRUE) /\ UNCHANGED otherThanMenu

TeardownNext ==
    \/ TeardownCardAdd \/ TeardownDec \/ TeardownFlyTimeout
    \/ TeardownUnmount \/ TeardownMount
    \/ OverlayToggleFab \/ OverlayScroll \/ OverlayFrame
    \/ OverlayOpenLightbox \/ OverlayCloseLightbox
SpecTeardown == TeardownInit /\ [][TeardownNext]_vars

\* C26: once Menu is unmounted none of its timeouts is pending, so none of
\* their callbacks runs later.
C26_TimersCancelledOnTeardown == ~mounted => flyTimers = 0

(***************************************************************************)
(* SpecPage: the menu page inside App, with the mobile navigation and the   *)
(* body scroll locks                                                        *)
(***************************************************************************)
\* Escape on the menu page inside App: one key press reaches the listeners
\* of Menu, of the Lightbox and of App
pressEscape(frameFirst) ==
    /\ mounted
    /\ mobileNavOpen' = FALSE
    /\ isQr' = isQr
    /\ headerEffect
    /\ commitWith([overlayState EXCEPT !.fabOpen = FALSE, !.lightboxItem = Null,
                                       !.frameFirst = frameFirst], FALSE)
    /\ lastCall' = Call("escapeKey", Null)
    /\ UNCHANGED <<catalogVars, cartVars, tickingRef, rafQueued, scrollY>>

PageInit == OverlayInit

PageEscape == (\E frameFirst \in BOOLEAN : pressEscape(frameFirst)) /\ UNCHANGED <<histVars, carouselVars, videoVars, flyVars>>
PageToggleNav ==
    /\ toggleMobileNav
    /\ lastCall' = Call("toggleMobileNav", Null)
    /\ UNCHANGED <<catalogVars, cartVars, overlayVars, histVars, carouselVars, videoVars, flyVars>>

PageNext ==
    \/ OverlayToggleFab \/ OverlayToggleCart \/ OverlayBackdrop \/ OverlayPick
    \/ OverlayCloseCartPanel \/ OverlayCartTransitionEnd \/ OverlayPanelTransitionEnd
    \/ OverlayTop \/ OverlayScroll \/ OverlayFrame
    \/ OverlayOpenLightbox \/ OverlayCloseLightbox
    \/ OverlayOpenCartPage \/ OverlayCloseCartPage \/ OverlayAdd
    \/ PageEscape \/ PageToggleNav
SpecPage == PageInit /\ [][PageNext]_vars

OpenOverlays ==
    {o \in {"categoryPanel", "cartPanel", "lightbox", "cartPage"} :
        \/ o = "categoryPanel" /\ fabOpen
        \/ o = "cartPanel" /\ cartOpen
        \/ o = "lightbox" /\ lightboxItem # Null
        \/ o = "cartPage" /\ cartPageOpen}

\* C11: after the effects have settled at most one of the category panel,
\* the cart panel, the lightbox and the full cart page is open.
C11_AtMostOneOverlay == Cardinality(OpenOverlays) <= 1

\* C12: after an Escape key press no overlay is open: category panel, cart
\* panel, lightbox, full cart page and mobile navigation are all closed.
C12_EscapeClosesAll ==
    lastCall.op = "escapeKey" => (OpenOverlays = {} /\ ~mobileNavOpen)

\* C13: once the lightbox and the mobile navigation are both closed, the body
\* overflow value is the one it had before the first of them was opened.
C13_OverflowRestored ==
    (lightboxItem = Null /\ ~mobileNavOpen) => bodyOverflow = ""

\* C14: while the lightbox, the full cart page or the mobile navigation is
\* open, the body overflow value is "hidden".
C14_ScrollSuspended ==
    (lightboxItem # Null \/ cartPageOpen \/ mobileNavOpen) => bodyOverflow = "hidden"

(***************************************************************************)
(* Home.tsx, revision with video slides: the autoplay timer of             *)
(* BannerCarousel                                                          *)
(***************************************************************************)
\* slides[i]?.type === "video" for the 0-based index i
isActiveVideo(i) == i + 1 \in DOMAIN slideTypes /\ slideTypes[i + 1] = "video"

\* the autoplay effect's body: a timeout is set unless there is at most one
\* slide or reduced motion is preferred
arms(reduced) == slides > 1 /\ ~reduced

\* variant: the effect keyed on idx as well
autoplayDepsWithIdx(i, j, r, q) == i # j \/ r # q
\* the autoplay effect's dependencies differ between the render with index
\* i and preference r and the render with index j and preference q
\* (slides.length, autoMs and videoHoldMs do not change)
autoplayDepsChanged(i, j, r, q) ==
    isActiveVideo(i) # isActiveVideo(j) \/ r # q

\* the render after a state change: a changed dependency runs the cleanup
\* (clearTimeout) and the effect again; otherwise the timer stays as the
\* event left it (pending)
autoplayEffect(pending) ==
    timerArmed' =
        IF autoplayDepsChanged(idx, idx', prefersReducedMotion, prefersReducedMotion')
        THEN arms(prefersReducedMotion')
        ELSE pending
\* history of the pending timeout: one set in this render is fresh; one left
\* pending by a manual navigation has been overtaken by it
timerHistory(pending, manual) ==
    timerStale' =
        IF autoplayDepsChanged(idx, idx', prefersReducedMotion, prefersReducedMotion')
        THEN FALSE
        ELSE pending /\ (manual \/ timerStale)

\* the timeout fires: setIdx(v => (v + 1) % slides.length); it is no longer
\* pending
videoTimeout ==
    /\ timerArmed
    /\ idx' = (idx + 1) % slides
    /\ lastNav' = [op |-> "timeout", n |-> 0]
    /\ UNCHANGED <<slides, touchStartX, touchDeltaX, slideTypes, prefersReducedMotion>>
    /\ autoplayEffect(FALSE)
    /\ timerHistory(FALSE, FALSE)

\* prev() / next() from the arrows, the keyboard or a swipe
videoPrev ==
    /\ prev
    /\ UNCHANGED <<slideTypes, prefersReducedMotion>>
    /\ autoplayEffect(timerArmed)
    /\ timerHistory(timerArmed, TRUE)
videoNext ==
    /\ next
    /\ UNCHANGED <<slideTypes, prefersReducedMotion>>
    /\ autoplayEffect(timerArmed)
    /\ timerHistory(timerArmed, TRUE)

\* the change listener of matchMedia("(prefers-reduced-motion: reduce)")
mediaChange ==
    /\ prefersReducedMotion' = ~prefersReducedMotion
    /\ UNCHANGED <<carouselVars, slideTypes>>
    /\ autoplayEffect(timerArmed)
    /\ timerHistory(timerArmed, FALSE)

(***************************************************************************)
(* SpecVideo: the carousel with image and video slides in any order; a     *)
(* pending timeout eventually fires                                        *)
(***************************************************************************)
SlideKinds == {"image", "video"}
otherThanVideo ==
    <<catalogVars, cartVars, overlayVars, histVars, callVars, headerVars, lockVars, flyVars>>

VideoInit ==
    /\ slideTypes \in UNION {[1..n -> SlideKinds] : n \in 0..MaxSlides}
    /\ slides = Len(slideTypes)
    /\ idx = 0 /\ touchStartX = << >> /\ touchDeltaX = 0 /\ lastNav = NoNav
    /\ prefersReducedMotion \in BOOLEAN
    /\ timerArmed = arms(prefersReducedMotion)
    /\ timerStale = FALSE
    /\ CatalogIdle /\ CartIdle /\ OverlayIdle /\ HistIdle /\ FlyIdle /\ CallIdle /\ LockIdle /\ HeaderIdle

VideoTimeout == videoTimeout /\ UNCHANGED otherThanVideo
VideoPrev == videoPrev /\ UNCHANGED otherThanVideo
VideoNext == videoNext /\ UNCHANGED otherThanVideo
VideoMediaChange == mediaChange /\ UNCHANGED otherThanVideo

VideoStep == VideoTimeout \/ VideoPrev \/ VideoNext \/ VideoMediaChange
SpecVideo == VideoInit /\ [][VideoStep]_vars /\ WF_vars(VideoTimeout)

\* C20: with more than one slide and no reduced-motion preference, from every
\* active slide the index eventually moves on (or the preference changes).
C20_KeepsAdvancing ==
    \A k \in 0..MaxSlides :
        [](( slides > 1 /\ ~prefersReducedMotion /\ idx = k )
              => <>( idx # k \/ prefersReducedMotion ))

\* C21: no automatic advance comes from a timer that was set before the most
\* recent manual navigation: when the timeout fires and moves the index, no
\* prev()/next() has run since that timeout was set.
C21_ManualNavRearms ==
    [][(lastNav'.op = "timeout" /\ idx' # idx) => ~timerStale]_vars

\* the rule of the autoplay effect: under reduced motion no timeout is pending
ReducedMotionNoTimer == prefersReducedMotion => ~timerArmed

\* the header tracker keeps its guard in a ref, which outlives the effect's
\* runs: at most one frame callback of its onScroll is queued
HeaderOneFrameQueued == rafQueued <= 1 /\ (tickingRef <=> rafQueued = 1)

====
